---- MODULE Spec2Model ----
(***************************************************************************)
(* A model of the search facade of rust-hyperscan (src/src/regex.rs):      *)
(* Regex::find_at, the Matches iterator behind find_iter, the Split and   *)
(* SplitN iterators built on it, Regex::replacen, and the scratch          *)
(* workspace each scan allocates.                                          *)
(*                                                                         *)
(* Offsets are byte offsets, 0-based as in the source; text[a..b] is the   *)
(* half-open slice, Slice(a, b) below.  The matching engine (hs_scan and   *)
(* hs_alloc_scratch) is the environment: the pattern's occurrences in the  *)
(* text are drawn in Init, faults are drawn per call.                      *)
(***************************************************************************)
EXTENDS Integers, Sequences, FiniteSets

\* ------------------------------------------------------------- bounds
MaxLen == 3
MaxOcc == 2
MaxLimit == 3
MaxReplaceLen == 4
MaxIdemLen == 4
MaxPatLen == 2
MaxRepLen == 1
MaxScans == 3
MaxScratchLen == 2
MaxOps == 3
MaxClones == 2
MaxIters == 2
MaxInterleaveLen == 2
MaxInterleaveOcc == 1
MaxInterleaveLimit == 2

VARIABLES
    text,        \* the haystack handed to find_at / find_iter / split / splitn
    occ,         \* the occurrences <<s, e>> of the compiled pattern in text
    fa,          \* the last Regex::find_at call: arguments, engine outcome, result
    it,          \* a Matches iterator made by find_iter(text)
    it_out,      \* the matches it has yielded, in order
    it_ret,      \* what its last next() returned
    it_exhausted,\* whether one of its next() calls has returned None
    it_faulted,  \* whether one of its scans suffered a fault
    sp,          \* a Split iterator made by split(text)
    sp_out,      \* the pieces it has yielded, in order
    sp_log,      \* the matches its finder has yielded to it, in order
    sp_ret,      \* what its last next() returned
    sp_phase,    \* "running", "tailed" (tail yielded) or "done" (None returned)
    sp_faulted,  \* whether one of its finder's scans suffered a fault
    sn,          \* a SplitN iterator made by splitn(text, sn_limit)
    sn_limit,    \* the limit it was made with
    sn_out,      \* the pieces it has yielded, in order
    sn_ret,      \* what its last next() returned
    sn_cut,      \* the pieces it had yielded at its first None (-1: no None yet)
    sn_faulted,  \* whether one of its finder's scans suffered a fault
    rp,          \* the last Regex::replacen call: arguments, loop record, result
    idem,        \* replace_all applied to its own output: pattern, rep, both results
    sc,          \* scratch workspaces: how many were allocated, the scans run, two iterators
    db,          \* a RawDatabase handle and the native database behind it
    own          \* the Regex clones sharing one database, and their iterators

env_vars == <<text, occ>>
fa_vars == <<fa>>
it_vars == <<it, it_out, it_ret, it_exhausted, it_faulted>>
sp_vars == <<sp, sp_out, sp_log, sp_ret, sp_phase, sp_faulted>>
sn_vars == <<sn, sn_limit, sn_out, sn_ret, sn_cut, sn_faulted>>
rp_vars == <<rp, idem>>
sc_vars == <<sc>>
db_vars == <<db, own>>
vars == <<env_vars, fa_vars, it_vars, sp_vars, sn_vars, rp_vars, sc_vars, db_vars>>

\* ------------------------------------------------------------- values
\* Option<Match>: Match { text, start, end };  base is the offset in the
\* caller's text at which the Match's own `text` slice begins.
NoneM == [some |-> FALSE, base |-> 0, start |-> 0, end |-> 0]
SomeM(b, s, e) == [some |-> TRUE, base |-> b, start |-> s, end |-> e]

\* Option<&str>: the slice text[start..end] of the caller's text.
NoneS == [some |-> FALSE, start |-> 0, end |-> 0]
SomeS(a, b) == [some |-> TRUE, start |-> a, end |-> b]

\* Match::new(text): start = end = 0.
MatchNew(b) == [base |-> b, start |-> 0, end |-> 0]

is_matchedLoose(m) == m.end >= m.start

\* Match::is_matched
is_matched(m) == m.end > m.start

\* Match::update
update(m, from, to) == [m EXCEPT !.start = from, !.end = to]

short_matchedOn(from, to, m) == [m |-> update(m, from, to), ret |-> 0]

\* Match::short_matched: records the pair and returns 1 (stop scanning).
short_matched(from, to, m) == [m |-> update(m, from, to), ret |-> 1]

\* text[a..b]
Slice(a, b) == SubSeq(text, a + 1, b)

\* The bytes of a yielded piece or of a match (Match::as_str).
Str(p) == Slice(p.start, p.end)

\* ------------------------------------------------------------- engine
Pairs(n) == {p \in (0..n) \X (0..n) : p[1] <= p[2]}
OccSets(n) == {o \in SUBSET Pairs(n) : Cardinality(o) <= MaxOcc}
\* The facade never reads a byte of the text, only the engine does, and the
\* engine's answer is occ.  The texts have a different byte at every offset,
\* so that two slices are equal only if they are the same slice.
TextOfLen(n) == [i \in 1..n |-> i]
Texts == {TextOfLen(n) : n \in 0..MaxLen}

\* The engine reports match events in order of their end offset.
Before(p, q) == p[2] < q[2] \/ (p[2] = q[2] /\ p[1] < q[1])

RECURSIVE SortEvents(_)
SortEvents(S) ==
    IF S = {} THEN <<>>
    ELSE LET p == CHOOSE x \in S : \A y \in S \ {x} : Before(x, y)
         IN  <<p>> \o SortEvents(S \ {p})

\* The (from, to) events of a scan of text[offset..], relative to the slice.
EngineEvents(offset) ==
    SortEvents({<<o[1] - offset, o[2] - offset>> : o \in {x \in occ : x[1] >= offset}})

\* The engine calls the handler once per event until the handler returns
\* non-zero.
RECURSIVE RunCallbacks(_, _, _)
\* The handler returned r for the first event; rest are the later events.
Called(r, rest, calls) ==
    IF r.ret # 0 THEN [m |-> r.m, stopped |-> TRUE, calls |-> calls + 1]
    ELSE RunCallbacks(rest, r.m, calls + 1)

RunCallbacks(events, m, calls) ==
    IF events = <<>> THEN [m |-> m, stopped |-> FALSE, calls |-> calls]
    ELSE Called(short_matched(Head(events)[1], Head(events)[2], m), Tail(events), calls)

\* What one scan can suffer: nothing, a failed scratch allocation, an engine
\* error before any callback, an engine error after the callbacks ran.
Faults == {"none", "alloc", "scan", "scan_late"}

\* The code of a scan whose callbacks left r.
Scanned(r, fault) ==
    [rc |-> IF fault = "scan_late" THEN "Invalid"
            ELSE IF r.stopped THEN "ScanTerminated" ELSE "Success",
     m  |-> r.m,
     calls |-> r.calls]

\* db.scan(text[offset..], flags, scratch, short_matched, m): the result code
\* and the slot m after the call.
scan(offset, m, fault) ==
    IF fault = "scan" THEN [rc |-> "Invalid", m |-> m, calls |-> 0]
    ELSE Scanned(RunCallbacks(EngineEvents(offset), m, 0), fault)

\* db.alloc()
alloc(fault) == IF fault = "alloc" THEN "Err" ELSE "Ok"

CompletedAny(rc) == TRUE

\* The match arm Ok(_) | Err(ScanTerminated)
Completed(rc) == rc \in {"Success", "ScanTerminated"}

\* ------------------------------------------------------------- find_at
\* The match arms of find_at on the scan's result r.
FindAtReturns(r) ==
    [ret  |-> IF Completed(r.rc) /\ is_matched(r.m)
              THEN SomeM(r.m.base, r.m.start, r.m.end)
              ELSE NoneM,
     rc   |-> r.rc,
     slot |-> r.m,
     calls |-> r.calls]

\* Regex::find_at(text, start): the Match is built over the slice
\* text[start..] and returned as the callback left it.
find_at(start, fault) ==
    IF alloc(fault) # "Ok"
    THEN [ret |-> NoneM, rc |-> "AllocFailed", slot |-> MatchNew(start), calls |-> 0]
    ELSE FindAtReturns(scan(start, MatchNew(start), fault))

\* ------------------------------------------------------------- Matches
\* Matches::new
MatchesNew == [m |-> SomeM(0, 0, 0)]

ScanOffsetStart(m) == m.start

\* The offset the next scan starts from: the end of the stored match.
ScanOffset(m) == m.end

\* The match handed out after a completed scan: offsets shifted by offset.
Shifted(m, offset) == [m EXCEPT !.start = m.start + offset, !.end = m.end + offset]

AfterNoneRestart == SomeM(0, 0, 0)

\* What next() leaves in self.m when the scan did not produce a match.
AfterNone == NoneM

\* The match arms of Matches::next on the scan's result r: m is the slot
\* shifted by the offset, hit the test of the Some arm.
NextReturns(r, m, hit, offset) ==
    [self   |-> [m |-> IF hit THEN SomeM(m.base, m.start, m.end) ELSE AfterNone],
     ret    |-> IF hit THEN SomeM(m.base, m.start, m.end) ELSE NoneM,
     rc     |-> r.rc,
     slot   |-> r.m,
     offset |-> offset,
     calls  |-> r.calls]

NextScanned(r, offset) ==
    NextReturns(r, Shifted(r.m, offset), Completed(r.rc) /\ is_matched(r.m), offset)

\* The body of Matches::next for a stored match that ends at offset.
NextFrom(offset, fault) ==
    IF alloc(fault) # "Ok"
    THEN [self |-> [m |-> AfterNone], ret |-> NoneM, rc |-> "AllocFailed",
          slot |-> MatchNew(0), offset |-> offset, calls |-> 0]
    ELSE NextScanned(scan(offset, MatchNew(0), fault), offset)

\* Matches::next.  self.m is taken; it is put back only with a new match.
MatchesNext(self, fault) ==
    IF ~self.m.some
    THEN [self |-> [m |-> NoneM], ret |-> NoneM, rc |-> "NoScan", slot |-> MatchNew(0), offset |-> 0,
          calls |-> 0]
    ELSE NextFrom(ScanOffset(self.m), fault)

\* ------------------------------------------------------------- Split
\* Regex::split
SplitNew == [finder |-> MatchesNew, last |-> 0]

ContiguousNever(last, m) == FALSE

\* The test `self.last == m.start()`: the match begins where the cursor is.
Contiguous(last, m) == last = m.start

SplitTailDropped(self) == [last |-> self.last, ret |-> NoneS]

SplitTailAgain(self) ==
    IF self.last > Len(text)
    THEN [last |-> self.last, ret |-> NoneS]
    ELSE [last |-> self.last, ret |-> SomeS(self.last, Len(text))]

\* The arm for finder.next() == None: the tail text[last..], once.
SplitTail(self) ==
    IF self.last >= Len(text)
    THEN [last |-> self.last, ret |-> NoneS]
    ELSE [last |-> Len(text), ret |-> SomeS(self.last, Len(text))]

FinderShared(self) == it

\* The field `finder: Matches` of Split: the split's own find_iter iterator.
FinderOf(self) == self.finder

\* Split::next: the loop over finder.next().  The scan that starts at offset
\* fo suffers fault fk.  seen collects the matches the finder yielded in this
\* call, each with the cursor before it and the piece returned for it.
RECURSIVE SplitLoop(_, _, _, _)
\* The arm None of the loop: t is what SplitTail gives.
SplitTailed(self, r, t, seen, hit) ==
    [self        |-> [finder |-> r.self, last |-> t.last],
     ret         |-> t.ret,
     seen        |-> seen,
     finder_none |-> TRUE,
     cursor      |-> self.last,
     faulted     |-> hit]

\* The arm Some(m) of the loop.
SplitMatched(self, r, m, fo, fk, seen) ==
    IF Contiguous(self.last, m)
    THEN SplitLoop([finder |-> r.self, last |-> m.end], fo, fk,
                   Append(seen, [start |-> m.start, end |-> m.end,
                                 last_before |-> self.last, piece |-> NoneS]))
    ELSE [self        |-> [finder |-> r.self, last |-> m.end],
          ret         |-> SomeS(self.last, m.start),
          seen        |-> Append(seen, [start |-> m.start, end |-> m.end,
                                        last_before |-> self.last,
                                        piece |-> SomeS(self.last, m.start)]),
          finder_none |-> FALSE,
          cursor      |-> self.last,
          faulted     |-> FALSE]

\* One turn of the loop on r, what finder.next() returned.
SplitFound(self, r, hit, fo, fk, seen) ==
    IF ~r.ret.some
    THEN SplitTailed(self, r, SplitTail(self), seen, hit)
    ELSE SplitMatched(self, r, r.ret, fo, fk, seen)

\* hit: the fault strikes the scan this turn's finder.next() makes.
SplitTurn(self, hit, fo, fk, seen) ==
    SplitFound(self, MatchesNext(FinderOf(self), IF hit THEN fk ELSE "none"), hit, fo, fk, seen)

SplitLoop(self, fo, fk, seen) ==
    SplitTurn(self,
              FinderOf(self).m.some /\ ScanOffset(FinderOf(self).m) = fo /\ fk # "none",
              fo, fk, seen)

SplitNext(self, fo, fk) == SplitLoop(self, fo, fk, <<>>)

\* ------------------------------------------------------------- SplitN
\* Regex::splitn
SplitNNew(limit) == [splits |-> SplitNew, n |-> limit]

BudgetKept(n) == n

\* self.n -= 1
BudgetLeft(n) == n - 1

LastSlotNever(n) == FALSE

LastSlotEarly(n) == n <= 1

\* The test `self.n == 0` after the decrement: this call fills the last slot.
LastSlot(n) == n = 0

\* The else arm of SplitN::next: r is what self.splits.next() returned.
SplitNAsked(r, n) ==
    [self    |-> [splits |-> r.self, n |-> n],
     ret     |-> r.ret,
     scanned |-> TRUE,
     faulted |-> r.faulted]

\* SplitN::next after the decrement has left n.
SplitNBudget(self, n, fo, fk) ==
    IF LastSlot(n)
    THEN [self    |-> [self EXCEPT !.n = n],
          ret     |-> SomeS(self.splits.last, Len(text)),
          scanned |-> FALSE,
          faulted |-> FALSE]
    ELSE SplitNAsked(SplitNext(self.splits, fo, fk), n)

\* SplitN::next
SplitNNext(self, fo, fk) ==
    IF self.n = 0
    THEN [self |-> self, ret |-> NoneS, scanned |-> FALSE, faulted |-> FALSE]
    ELSE SplitNBudget(self, BudgetLeft(self.n), fo, fk)

\* ------------------------------------------------------------- replacen
\* The replacement texts: empty, or one byte that no text holds.
Reps == {<<>>, <<0>>}

SubstitutesAlways(m, last_match) == TRUE

\* The test `m.start() > last_match`: the match starts after the cursor.
Substitutes(m, last_match) == m.start > last_match

CapNever(limit, matched) == FALSE

\* The test `limit > 0 && matched >= limit`
CapReached(limit, matched) == limit > 0 /\ matched >= limit

NothingReplacedNever(last_match) == FALSE

\* The test `last_match == 0` after the loop
NothingReplaced(last_match) == last_match = 0

TailFromStart(last_match) == Slice(0, Len(text))

\* &text[last_match..]
TailFrom(last_match) == Slice(last_match, Len(text))

\* The for loop of replacen over find_iter(text).  st holds new, matched and
\* last_match; seen collects the matches the iterator yielded, each with the
\* cursor and the count before it and what the loop did with it.
RECURSIVE ReplaceLoop(_, _, _, _, _, _)
\* The loop body for m, the match the iterator yielded (or None); e is its
\* entry for seen, n_self the iterator after the call.
ReplaceBody(n_self, m, e, hit, limit, r, st, fo, fk) ==
    IF ~m.some
    THEN [st EXCEPT !.faulted = hit]
    ELSE IF Substitutes(m, st.last_match)
         THEN IF CapReached(limit, st.matched)
              THEN [st EXCEPT !.seen = Append(@, [e EXCEPT !.action = "break"]),
                              !.broke = TRUE]
              ELSE ReplaceLoop(n_self, limit, r,
                       [st EXCEPT !.matched = @ + 1,
                                  !.new = @ \o Slice(st.last_match, m.start) \o r,
                                  !.last_match = m.end,
                                  !.seen = Append(@, [e EXCEPT !.action = "subst"])],
                       fo, fk)
         ELSE ReplaceLoop(n_self, limit, r,
                  [st EXCEPT !.last_match = m.end,
                             !.seen = Append(@, e)],
                  fo, fk)

\* One turn of the loop on n, what the iterator's next() returned.
ReplaceFound(n, hit, limit, r, st, fo, fk) ==
    ReplaceBody(n.self, n.ret,
                [start |-> n.ret.start, end |-> n.ret.end, last_before |-> st.last_match,
                 matched_before |-> st.matched, action |-> "skip"],
                hit, limit, r, st, fo, fk)

\* hit: the fault strikes the scan this turn's next() makes.
ReplaceTurn(finder, hit, limit, r, st, fo, fk) ==
    ReplaceFound(MatchesNext(finder, IF hit THEN fk ELSE "none"), hit, limit, r, st, fo, fk)

ReplaceLoop(finder, limit, r, st, fo, fk) ==
    ReplaceTurn(finder, finder.m.some /\ ScanOffset(finder.m) = fo /\ fk # "none",
                limit, r, st, fo, fk)

\* The lines after the loop: st holds new, matched and last_match.
Replaced(st) ==
    IF NothingReplaced(st.last_match)
    THEN [cow |-> "Borrowed", str |-> text, st |-> st]
    ELSE [cow |-> "Owned", str |-> st.new \o TailFrom(st.last_match), st |-> st]

\* Regex::replacen(text, limit, rep)
replacen(limit, r, fo, fk) ==
    Replaced(ReplaceLoop(MatchesNew, limit, r,
                         [new |-> <<>>, matched |-> 0, last_match |-> 0, seen |-> <<>>,
                          broke |-> FALSE, faulted |-> FALSE],
                         fo, fk))

\* ------------------------------------------------------------- database
\* RawDatabase (common.rs): the handle holds the pointer self.db; the native
\* database behind it belongs to the engine.  The engine's primitives are
\* the environment: each invocation returns a code the environment draws.
HsCodes == {"HS_SUCCESS", "HS_INVALID", "HS_NOMEM"}

\* impl From<i32> for Error
ErrorFrom(code) ==
    CASE code = "HS_SUCCESS" -> "Success"
      [] code = "HS_INVALID" -> "Invalid"
      [] code = "HS_NOMEM" -> "NoMem"
      [] OTHER -> "Failed"

\* The compiled contents a database can hold: one per pattern.
Contents == {1, 2}

NoCall == [op |-> "none", calls |-> 0, ret |-> "none", first |-> "none"]

\* RawDatabase::new(db) after a successful compile of pattern c.
DbNew(c) ==
    [ptr |-> "db", native |-> "live", built |-> c, contents |-> c, frees |-> 0,
     ops |-> 0, dropped |-> FALSE, panicked |-> FALSE, last |-> NoCall]

DbIdle == [DbNew(1) EXCEPT !.ptr = "null", !.native = "none"]

\* One invocation of hs_free_database(self.db): a null pointer is accepted
\* and nothing happens; otherwise the native database is released when
\* the engine answers HS_SUCCESS.
FreeCode(h, code) == IF h.ptr = "null" THEN "HS_SUCCESS" ELSE code
hs_free_database(h, code) ==
    IF h.ptr = "null" THEN h
    ELSE [h EXCEPT !.frees = @ + 1,
                   !.native = IF code = "HS_SUCCESS" THEN "released" ELSE @]

\* One invocation of hs_deserialize_database_at(bytes, len, self.db): on
\* HS_SUCCESS the database the bytes describe is written at self.db.
hs_deserialize_database_at(h, bytes, code) ==
    IF h.ptr = "db" /\ code = "HS_SUCCESS" THEN [h EXCEPT !.contents = bytes] ELSE h

EvaluatedOnce(code) == FALSE

\* check_hs_error!(expr): `if expr != HS_SUCCESS { return Err(From::from(expr)) }`
\* names expr twice, so a failing primitive is invoked a second time and
\* the error is made from the second code.
EvaluatedAgain(code) == code # "HS_SUCCESS"

\* What a call leaves to look at: how often the primitive was invoked, the
\* code of its first invocation and what the method returned.
Returned(op, calls, ret, first) == [op |-> op, calls |-> calls, ret |-> ret, first |-> first]

\* RawDatabase::free(&mut self)
free(h, c1, c2) ==
    IF EvaluatedAgain(FreeCode(h, c1))
    THEN [hs_free_database(hs_free_database(h, c1), c2) EXCEPT
              !.last = Returned("free", 2, ErrorFrom(FreeCode(hs_free_database(h, c1), c2)),
                                FreeCode(h, c1))]
    ELSE [hs_free_database(h, c1) EXCEPT !.ptr = "null", !.last = Returned("free", 1, "Ok", FreeCode(h, c1))]

\* Drop for RawDatabase: self.free().unwrap()
Dropped(h) == [h EXCEPT !.dropped = TRUE, !.panicked = (h.last.ret # "Ok"), !.last.op = "drop"]
drop(h, c1, c2) == Dropped(free(h, c1, c2))

\* database_size, database_info, serialize: the primitive reads self.db.
Reads(h, op, c1, c2) ==
    IF EvaluatedAgain(c1)
    THEN [h EXCEPT !.last = Returned(op, 2, ErrorFrom(c2), c1)]
    ELSE [h EXCEPT !.last = Returned(op, 1, "Ok", c1)]

database_size(h, c1, c2) == Reads(h, "database_size", c1, c2)
database_info(h, c1, c2) == Reads(h, "database_info", c1, c2)
serialize(h, c1, c2) == Reads(h, "serialize", c1, c2)

\* RawDatabase::deserialize_at(&self, bytes)
deserialize_at(h, bytes, c1, c2) ==
    IF EvaluatedAgain(c1)
    THEN [hs_deserialize_database_at(hs_deserialize_database_at(h, bytes, c1), bytes, c2)
              EXCEPT !.last = Returned("deserialize_at", 2, ErrorFrom(c2), c1)]
    ELSE [hs_deserialize_database_at(h, bytes, c1) EXCEPT
              !.last = Returned("deserialize_at", 1, "Ok", c1)]

NoScan == [by |-> "none", who |-> 0, native |-> "none"]
OwnIdle == [clones |-> {}, cloned |-> 0, iters |-> {}, made |-> 0, handle |-> DbIdle,
            last_scan |-> NoScan, scanned_released |-> FALSE]

\* Regex::new: `Rc::new(pattern.build()?)`, one Regex owning the database.
RegexNew == [OwnIdle EXCEPT !.clones = {1}, !.cloned = 1, !.handle = DbNew(1)]

LastOwnerAny(clones_left) == TRUE

\* Regex holds `db: Rc<BlockDatabase>`: the RawDatabase is dropped when the
\* Regex dropped was the last one holding the Rc.
LastOwner(clones_left) == clones_left = {}

\* self.db.scan(..) / self.re.db.scan(..) by Regex or iterator `who`.
ScanOn(o, by, who) ==
    [o EXCEPT !.last_scan = [by |-> by, who |-> who, native |-> o.handle.native],
              !.scanned_released = (@ \/ o.handle.native # "live")]

\* ------------------------------------------------------------- actions
RpIdle == [called |-> FALSE, limit |-> 0, rep |-> <<>>, cow |-> "Borrowed", str |-> <<>>,
           new |-> <<>>, matched |-> 0, last_match |-> 0, seen |-> <<>>, broke |-> FALSE, faulted |-> FALSE]
ScIdle == [count |-> 0, scans |-> <<>>, its |-> <<>>]
IdemIdle == [pattern |-> <<>>, rep |-> <<>>, pass |-> 0, first |-> RpIdle, second |-> RpIdle]
FaIdle == [called |-> FALSE, start |-> 0, ret |-> NoneM, rc |-> "NoScan", slot |-> MatchNew(0),
           calls |-> 0]
RetIdle == [called |-> FALSE, ret |-> NoneM, rc |-> "NoScan", slot |-> MatchNew(0), offset |-> 0,
            after_none |-> FALSE, calls |-> 0]
SpRetIdle == [called |-> FALSE, ret |-> NoneS, phase_before |-> "running", cursor |-> 0,
              finder_none |-> FALSE]
SnRetIdle == [called |-> FALSE, ret |-> NoneS, n_before |-> 0, last_before |-> 0,
              scanned |-> FALSE]

InitEnv ==
    /\ text \in Texts
    /\ occ \in OccSets(Len(text))
    /\ idem = IdemIdle

\* The state after find_iter(text), split(text) and splitn(text, limit).
InitFacade(limit) ==
    /\ fa = FaIdle
    /\ it = MatchesNew
    /\ it_out = <<>>
    /\ it_ret = RetIdle
    /\ it_exhausted = FALSE
    /\ it_faulted = FALSE
    /\ sp = SplitNew
    /\ sp_out = <<>>
    /\ sp_log = <<>>
    /\ sp_ret = SpRetIdle
    /\ sp_phase = "running"
    /\ sp_faulted = FALSE
    /\ sn = SplitNNew(limit)
    /\ sn_limit = limit
    /\ sn_out = <<>>
    /\ sn_ret = SnRetIdle
    /\ sn_cut = -1
    /\ sn_faulted = FALSE
    /\ rp = RpIdle

InitIters(limit) == InitFacade(limit) /\ db = DbIdle /\ own = OwnIdle

InitMatches == InitEnv /\ InitIters(0) /\ sc = ScIdle
InitSplit == InitEnv /\ InitIters(0) /\ sc = ScIdle
InitSplitN == InitEnv /\ sc = ScIdle /\ \E limit \in 0..MaxLimit : InitIters(limit)

\* A caller runs re.find_at(text, start) for some start within the text.
FaReturns(r, start) ==
    fa' = [called |-> TRUE, start |-> start, ret |-> r.ret, rc |-> r.rc, slot |-> r.slot,
           calls |-> r.calls]

FindAt ==
    /\ \E start \in 0..Len(text), fault \in Faults : FaReturns(find_at(start, fault), start)
    /\ UNCHANGED <<env_vars, it_vars, sp_vars, sn_vars, rp_vars, sc_vars, db_vars>>

\* A caller runs next() on the Matches iterator.
ItReturns(r, fault) ==
    /\ it' = r.self
    /\ it_out' = IF r.ret.some THEN Append(it_out, r.ret) ELSE it_out
    /\ it_ret' = [called |-> TRUE, ret |-> r.ret, rc |-> r.rc, slot |-> r.slot,
                  offset |-> r.offset, after_none |-> it_exhausted, calls |-> r.calls]
    /\ it_exhausted' = (it_exhausted \/ ~r.ret.some)
    /\ it_faulted' = (it_faulted \/ (it.m.some /\ fault # "none"))

ItNext ==
    /\ \E fault \in Faults : ItReturns(MatchesNext(it, fault), fault)
    /\ UNCHANGED <<env_vars, fa_vars, sp_vars, sn_vars, rp_vars, sc_vars, db_vars>>

\* A caller runs next() on the Split iterator.
SpReturns(r) ==
    /\ sp' = r.self
    /\ sp_out' = IF r.ret.some THEN Append(sp_out, r.ret) ELSE sp_out
    /\ sp_log' = sp_log \o r.seen
    /\ sp_ret' = [called |-> TRUE, ret |-> r.ret, phase_before |-> sp_phase,
                  cursor |-> r.cursor, finder_none |-> r.finder_none]
    /\ sp_phase' = IF ~r.ret.some THEN "done"
                   ELSE IF r.finder_none THEN "tailed" ELSE sp_phase
    /\ sp_faulted' = (sp_faulted \/ r.faulted)

SpNext ==
    /\ \E fo \in 0..Len(text), fk \in Faults : SpReturns(SplitNext(sp, fo, fk))
    /\ UNCHANGED <<env_vars, fa_vars, it_vars, sn_vars, rp_vars, sc_vars, db_vars>>

\* A caller runs next() on the SplitN iterator.
SnReturns(r) ==
    /\ sn' = r.self
    /\ sn_out' = IF r.ret.some THEN Append(sn_out, r.ret) ELSE sn_out
    /\ sn_ret' = [called |-> TRUE, ret |-> r.ret, n_before |-> sn.n,
                  last_before |-> sn.splits.last, scanned |-> r.scanned]
    /\ sn_cut' = IF sn_cut < 0 /\ ~r.ret.some THEN Len(sn_out) ELSE sn_cut
    /\ sn_faulted' = (sn_faulted \/ r.faulted)

SnNext ==
    /\ \E fo \in 0..Len(text), fk \in Faults : SnReturns(SplitNNext(sn, fo, fk))
    /\ UNCHANGED <<env_vars, fa_vars, it_vars, sp_vars, sn_limit, rp_vars, sc_vars, db_vars>>

\* What a run of replacen leaves: its result and its locals.
RunOf(x) ==
    [RpIdle EXCEPT !.called = TRUE, !.cow = x.cow, !.str = x.str, !.new = x.st.new,
                   !.matched = x.st.matched, !.last_match = x.st.last_match,
                   !.seen = x.st.seen, !.broke = x.st.broke, !.faulted = x.st.faulted]

\* A caller runs re.replacen(text, limit, rep); replace is limit 1,
\* replace_all is limit 0.  The call is a function of its arguments and of
\* the engine's answers, so one call per behaviour shows all of them.
Replacen ==
    /\ ~rp.called
    /\ \E limit \in 0..MaxLimit, r \in Reps, fo \in 0..Len(text), fk \in Faults :
         rp' = [RunOf(replacen(limit, r, fo, fk)) EXCEPT !.limit = limit, !.rep = r]
    /\ UNCHANGED <<env_vars, fa_vars, it_vars, sp_vars, sn_vars, idem, sc_vars, db_vars>>

NextMatches == FindAt \/ ItNext
SpecMatches == InitMatches /\ [][NextMatches]_vars

NextSplit == ItNext \/ SpNext
SpecSplit == InitSplit /\ [][NextSplit]_vars

\* replacen reaches its break only on a text with two matches and a gap
\* before each: four bytes.
InitReplace ==
    /\ text \in {TextOfLen(n) : n \in 0..MaxReplaceLen}
    /\ occ \in OccSets(Len(text))
    /\ idem = IdemIdle
    /\ InitIters(0)
    /\ sc = ScIdle
NextReplace == Replacen
SpecReplace == InitReplace /\ [][NextReplace]_vars

\* ---------------------------------------- replace_all on its own output
\* Here the text has content: the pattern is a literal and the engine
\* reports each place where it occurs in the text.
Alphabet == {1, 2}
StringsUpTo(n) == UNION {[1..k -> Alphabet] : k \in 0..n}
Patterns == StringsUpTo(MaxPatLen) \ {<<>>}
Occurrences(p, t) ==
    {<<s, s + Len(p)>> : s \in {x \in 0..(Len(t) - Len(p)) : SubSeq(t, x + 1, x + Len(p)) = p}}

replace_all(r, fo, fk) == replacen(0, r, fo, fk)

\* A Regex compiled from a literal, a text, and a replacement the pattern
\* does not occur in.
InitIdem ==
    /\ text \in StringsUpTo(MaxIdemLen)
    /\ \E p \in Patterns, r \in StringsUpTo(MaxRepLen) :
          /\ Occurrences(p, r) = {}
          /\ occ = Occurrences(p, text)
          /\ idem = [IdemIdle EXCEPT !.pattern = p, !.rep = r]
    /\ InitIters(0)
    /\ sc = ScIdle

\* let once = re.replace_all(t, r);
ReplaceAllFirst ==
    /\ idem.pass = 0
    /\ \E fo \in 0..Len(text), fk \in Faults :
          idem' = [idem EXCEPT !.pass = 1, !.first = RunOf(replace_all(idem.rep, fo, fk))]
    /\ UNCHANGED <<env_vars, fa_vars, it_vars, sp_vars, sn_vars, rp, sc_vars, db_vars>>

\* The caller hands the result to the same Regex as the next text.
FeedBack ==
    /\ idem.pass = 1
    /\ text' = idem.first.str
    /\ occ' = Occurrences(idem.pattern, idem.first.str)
    /\ idem' = [idem EXCEPT !.pass = 2]
    /\ UNCHANGED <<fa_vars, it_vars, sp_vars, sn_vars, rp, sc_vars, db_vars>>

\* let twice = re.replace_all(&once, r);
ReplaceAllAgain ==
    /\ idem.pass = 2
    /\ \E fo \in 0..Len(text), fk \in Faults :
          idem' = [idem EXCEPT !.pass = 3, !.second = RunOf(replace_all(idem.rep, fo, fk))]
    /\ UNCHANGED <<env_vars, fa_vars, it_vars, sp_vars, sn_vars, rp, sc_vars, db_vars>>

NextIdem == ReplaceAllFirst \/ FeedBack \/ ReplaceAllAgain
SpecIdem == InitIdem /\ [][NextIdem]_vars

\* ------------------------------------------------- scratch workspaces
\* Two compiled databases of the same pattern (two Regex::new calls); a
\* Regex and its clones share one.  Every call runs to its end before the
\* next one starts: Regex holds an Rc and cannot leave its thread.
Dbs == {1, 2}
Iters == {1, 2}

NoScratch == [some |-> FALSE, id |-> 0, db |-> 0]

ScratchDbFirst(self_db) == 1

\* `self.db.alloc()`: the scratch is allocated against the caller's own
\* database.
ScratchDb(self_db) == self_db

\* A successful allocation yields a workspace no earlier call has seen.
AllocScratch(self_db, fault, count) ==
    IF alloc(fault) # "Ok" THEN NoScratch
    ELSE [some |-> TRUE, id |-> count + 1, db |-> ScratchDb(self_db)]

\* `self.db.scan(text, flags, &mut s, ..)`: the database scanned and the
\* scratch handed to the engine.
ScanWith(self_db, s, by) == [db |-> self_db, scratch |-> s.id, scratch_db |-> s.db, by |-> by]

Allocated(a) == IF a.some THEN [sc EXCEPT !.count = a.id] ELSE sc

\* The iterators of find_iter(text) on a Regex of each database.
InitScratch ==
    /\ text \in {TextOfLen(n) : n \in 0..MaxScratchLen}
    /\ occ \in OccSets(Len(text))
    /\ idem = IdemIdle
    /\ InitIters(0)
    /\ \E d \in Dbs :
          sc = [ScIdle EXCEPT !.its = <<[db |-> 1, m |-> MatchesNew.m], [db |-> d, m |-> MatchesNew.m]>>]

\* re.find_at(text, start) on a Regex of database d.
ScFindAt ==
    /\ Len(sc.scans) < MaxScans
    /\ \E d \in Dbs, start \in 0..Len(text), fault \in Faults :
          LET a == AllocScratch(d, fault, sc.count)
              r == find_at(start, fault)
          IN  sc' = IF r.rc = "AllocFailed" THEN Allocated(a)
                    ELSE [Allocated(a) EXCEPT !.scans = Append(@, ScanWith(d, a, 0))]
    /\ UNCHANGED <<env_vars, fa_vars, it_vars, sp_vars, sn_vars, rp_vars, db_vars>>

\* next() on iterator i.
ScNext ==
    /\ Len(sc.scans) < MaxScans
    /\ \E i \in Iters, fault \in Faults :
          LET self == sc.its[i]
              a == IF self.m.some THEN AllocScratch(self.db, fault, sc.count) ELSE NoScratch
              n == MatchesNext([m |-> self.m], fault)
              after == [Allocated(a) EXCEPT !.its[i].m = n.self.m]
          IN  sc' = IF n.rc \in {"NoScan", "AllocFailed"} THEN after
                    ELSE [after EXCEPT !.scans = Append(@, ScanWith(self.db, a, i))]
    /\ UNCHANGED <<env_vars, fa_vars, it_vars, sp_vars, sn_vars, rp_vars, db_vars>>

NextScratch == ScFindAt \/ ScNext
SpecScratch == InitScratch /\ [][NextScratch]_vars

\* ------------------------------------------------- database handle
InitUnused ==
    /\ text = <<>>
    /\ occ = {}
    /\ idem = IdemIdle
    /\ sc = ScIdle
    /\ InitFacade(0)

\* A database compiled from one of the patterns, held directly.
InitDb ==
    /\ InitUnused
    /\ own = OwnIdle
    /\ \E c \in Contents : db = DbNew(c)

Counted(h) == [h EXCEPT !.ops = db.ops + 1]

\* db.free()
DbFree ==
    /\ ~db.dropped /\ db.ops < MaxOps
    /\ \E c1 \in HsCodes, c2 \in HsCodes : db' = Counted(free(db, c1, c2))
    /\ UNCHANGED <<env_vars, fa_vars, it_vars, sp_vars, sn_vars, rp_vars, sc_vars, own>>

\* The handle goes out of scope.
DbDrop ==
    /\ ~db.dropped
    /\ \E c1 \in HsCodes, c2 \in HsCodes : db' = drop(db, c1, c2)
    /\ UNCHANGED <<env_vars, fa_vars, it_vars, sp_vars, sn_vars, rp_vars, sc_vars, own>>

\* db.database_size()
DbSize ==
    /\ ~db.dropped /\ db.ops < MaxOps
    /\ \E c1 \in HsCodes, c2 \in HsCodes : db' = Counted(database_size(db, c1, c2))
    /\ UNCHANGED <<env_vars, fa_vars, it_vars, sp_vars, sn_vars, rp_vars, sc_vars, own>>

\* db.database_info()
DbInfo ==
    /\ ~db.dropped /\ db.ops < MaxOps
    /\ \E c1 \in HsCodes, c2 \in HsCodes : db' = Counted(database_info(db, c1, c2))
    /\ UNCHANGED <<env_vars, fa_vars, it_vars, sp_vars, sn_vars, rp_vars, sc_vars, own>>

\* db.serialize()
DbSerialize ==
    /\ ~db.dropped /\ db.ops < MaxOps
    /\ \E c1 \in HsCodes, c2 \in HsCodes : db' = Counted(serialize(db, c1, c2))
    /\ UNCHANGED <<env_vars, fa_vars, it_vars, sp_vars, sn_vars, rp_vars, sc_vars, own>>

\* db.deserialize_at(bytes), bytes the serialization of some database.
DbDeserializeAt ==
    /\ ~db.dropped /\ db.ops < MaxOps
    /\ \E bytes \in Contents, c1 \in HsCodes, c2 \in HsCodes :
          db' = Counted(deserialize_at(db, bytes, c1, c2))
    /\ UNCHANGED <<env_vars, fa_vars, it_vars, sp_vars, sn_vars, rp_vars, sc_vars, own>>

NextDb == DbFree \/ DbDrop \/ DbSize \/ DbInfo \/ DbSerialize \/ DbDeserializeAt
SpecDb == InitDb /\ [][NextDb]_vars

\* ------------------------------------------------- owners of a database
InitOwners ==
    /\ InitUnused
    /\ db = DbIdle
    /\ own = RegexNew

\* re.clone(): #[derive(Clone)] clones the Rc.
RegexClone ==
    /\ own.clones # {} /\ own.cloned < MaxClones
    /\ own' = [own EXCEPT !.clones = @ \cup {own.cloned + 1}, !.cloned = @ + 1]
    /\ UNCHANGED <<env_vars, fa_vars, it_vars, sp_vars, sn_vars, rp_vars, sc_vars, db>>

\* A Regex no iterator borrows goes out of scope.
RegexDrop ==
    /\ \E c \in own.clones, c1 \in HsCodes, c2 \in HsCodes :
          /\ \A i \in own.iters : i.re # c
          /\ own' = [own EXCEPT !.clones = @ \ {c},
                                !.handle = IF LastOwner(own.clones \ {c}) THEN drop(@, c1, c2) ELSE @]
    /\ UNCHANGED <<env_vars, fa_vars, it_vars, sp_vars, sn_vars, rp_vars, sc_vars, db>>

\* re.find_iter(text) (split and splitn hold one too): borrows the Regex.
FindIter ==
    /\ own.made < MaxIters
    /\ \E c \in own.clones :
          own' = [own EXCEPT !.iters = @ \cup {[id |-> own.made + 1, re |-> c]}, !.made = @ + 1]
    /\ UNCHANGED <<env_vars, fa_vars, it_vars, sp_vars, sn_vars, rp_vars, sc_vars, db>>

\* next() on a live iterator scans the database of the Regex it borrows.
IterScan ==
    /\ \E i \in own.iters : own' = ScanOn(own, "next", i.id)
    /\ UNCHANGED <<env_vars, fa_vars, it_vars, sp_vars, sn_vars, rp_vars, sc_vars, db>>

\* re.find_at(text, start) on a live Regex.
RegexScan ==
    /\ \E c \in own.clones : own' = ScanOn(own, "find_at", c)
    /\ UNCHANGED <<env_vars, fa_vars, it_vars, sp_vars, sn_vars, rp_vars, sc_vars, db>>

\* An iterator goes out of scope.
IterDrop ==
    /\ \E i \in own.iters : own' = [own EXCEPT !.iters = @ \ {i}]
    /\ UNCHANGED <<env_vars, fa_vars, it_vars, sp_vars, sn_vars, rp_vars, sc_vars, db>>

NextOwners == RegexClone \/ RegexDrop \/ FindIter \/ IterScan \/ RegexScan \/ IterDrop
SpecOwners == InitOwners /\ [][NextOwners]_vars

\* ------------------------------------------------- one caller at a time
\* A caller drives one of find_iter, split, splitn and replacen to its end;
\* the others stay as constructed.
OneCaller(who) ==
    /\ who = "it" \/ (it_ret = RetIdle /\ ~it_exhausted)
    /\ who = "sp" \/ ~sp_ret.called
    /\ who = "sn" \/ ~sn_ret.called
    /\ who = "rp" \/ ~rp.called

PrItNext == OneCaller("it") /\ ItNext
PrSpNext == OneCaller("sp") /\ SpNext
PrSnNext == OneCaller("sn") /\ SnNext
PrReplacen == OneCaller("rp") /\ Replacen

NextProgress == PrItNext \/ PrSpNext \/ PrSnNext \/ PrReplacen
SpecProgress == InitSplitN /\ [][NextProgress]_vars

NextSplitN == SnNext
SpecSplitN == InitSplitN /\ [][NextSplitN]_vars

\* One caller holds a Matches, a Split and a SplitN iterator made from the
\* same Regex and calls next() on them in any order.
InitInterleave ==
    /\ text \in {TextOfLen(n) : n \in 0..MaxInterleaveLen}
    /\ occ \in {o \in SUBSET Pairs(Len(text)) : Cardinality(o) <= MaxInterleaveOcc}
    /\ idem = IdemIdle
    /\ sc = ScIdle
    /\ \E limit \in 0..MaxInterleaveLimit : InitIters(limit)

NextInterleave == ItNext \/ SpNext \/ SnNext
SpecInterleave == InitInterleave /\ [][NextInterleave]_vars

\* ------------------------------------------------------------- claims
\* C1: the matches one find_iter(text) iterator yields are left to right and
\* do not overlap: each starts at or after the end of the one before it.
C1_NonOverlapping ==
    \A i \in 1..Len(it_out) :
        i > 1 => /\ it_out[i].start >= it_out[i - 1].end
                 /\ it_out[i].end > it_out[i - 1].end

C1_Witness == Len(it_out) >= 2 /\ it_out[2].start > it_out[1].end

\* C2: once next() has returned None (no match, scan failure or scratch
\* allocation failure), every later next() returns None, runs no scan and
\* leaves the iterator without a stored match, so it never restarts from 0.
C2_Fused ==
    /\ it_ret.after_none =>
            ~it_ret.ret.some /\ it_ret.rc = "NoScan"
    /\ it_exhausted => ~it.m.some

C2_Witness == it_ret.after_none /\ Len(it_out) >= 1

\* C3: every Match returned by find / find_at or yielded by find_iter has
\* end > start, and a completed scan whose slot has end = start gives None.
C3_StrictlyNonEmpty ==
    /\ fa.ret.some => fa.ret.end > fa.ret.start
    /\ \A i \in 1..Len(it_out) : it_out[i].end > it_out[i].start
    /\ (fa.called /\ fa.slot.end = fa.slot.start) => ~fa.ret.some
    /\ (it_ret.called /\ it_ret.slot.end = it_ret.slot.start) => ~it_ret.ret.some

C3_Witness ==
    /\ fa.called /\ fa.rc = "ScanTerminated" /\ fa.slot.end = fa.slot.start
    /\ it_ret.called /\ it_ret.rc = "ScanTerminated" /\ it_ret.slot.end = it_ret.slot.start
    /\ Len(it_out) >= 1

\* C4: a match found by a scan from offset s, by find_at(text, s) and by an
\* iterator step positioned at s, reports start and end as offsets into the
\* original text: the engine's offsets shifted by s.
C4_OffsetsInOriginalText ==
    /\ fa.ret.some =>
            /\ fa.ret.start = fa.slot.start + fa.start
            /\ fa.ret.end = fa.slot.end + fa.start
    /\ it_ret.ret.some =>
            /\ it_ret.ret.start = it_ret.slot.start + it_ret.offset
            /\ it_ret.ret.end = it_ret.slot.end + it_ret.offset

\* The spans <<start, end>> of a sequence of pieces or matches.
Spans(seq) == [i \in 1..Len(seq) |-> <<seq[i].start, seq[i].end>>]

RECURSIVE InsertSpan(_, _)
InsertSpan(p, sorted) ==
    IF sorted = <<>> THEN <<p>>
    ELSE IF p[1] < Head(sorted)[1] \/ (p[1] = Head(sorted)[1] /\ p[2] <= Head(sorted)[2])
         THEN <<p>> \o sorted
         ELSE <<Head(sorted)>> \o InsertSpan(p, Tail(sorted))

\* The spans of a sequence in offset order.
RECURSIVE SortSpans(_)
SortSpans(spans) ==
    IF spans = <<>> THEN <<>> ELSE InsertSpan(Head(spans), SortSpans(Tail(spans)))

\* The concatenation of the slices of text the spans name.
RECURSIVE Concat(_)
Concat(spans) ==
    IF spans = <<>> THEN <<>>
    ELSE Slice(Head(spans)[1], Head(spans)[2]) \o Concat(Tail(spans))

\* C5: when split(text) has run to its end, its pieces and the matches of
\* find_iter(text) (the matches its finder yielded, which are those a
\* find_iter(text) run on its own yields when no scan of either faults),
\* concatenated in offset order, are text.
C5_Reconstructs ==
    sp_phase = "done" =>
        /\ Concat(SortSpans(Spans(sp_out) \o Spans(sp_log))) = text
        /\ (it_exhausted /\ ~it_faulted /\ ~sp_faulted) => Spans(it_out) = Spans(sp_log)

C5_Witness ==
    /\ sp_phase = "done" /\ Len(sp_out) >= 2 /\ Len(sp_log) >= 1
    /\ it_exhausted /\ ~it_faulted /\ ~sp_faulted /\ Len(it_out) >= 1

\* C6: if the pattern does not occur in text, split(text) yields exactly one
\* piece, equal to text, whatever text is (the empty text too).
C6_NoMatchOnePiece ==
    (occ = {} /\ sp_phase = "done") =>
        /\ Len(sp_out) = 1
        /\ Str(sp_out[1]) = text

\* C7: a match that starts exactly where the match consumed before it ended
\* gets no piece (no empty piece lies between the two), and the cursor
\* stands at the end of the last match consumed.
C7_MergesContiguous ==
    /\ \A i \in 1..Len(sp_log) :
           (i > 1 /\ sp_log[i].start = sp_log[i - 1].end) =>
               /\ ~sp_log[i].piece.some
               /\ sp_log[i].last_before = sp_log[i].start
               /\ \A j \in 1..Len(sp_out) :
                      ~(sp_out[j].start = sp_log[i].start /\ sp_out[j].end = sp_log[i].start)
    /\ (Len(sp_log) > 0 /\ sp.finder.m.some) => sp.last = sp_log[Len(sp_log)].end

C7_Witness ==
    \E i \in 1..Len(sp_log) :
        i > 1 /\ sp_log[i].start = sp_log[i - 1].end /\ sp.last = sp_log[i].end

\* C8: when the finder is exhausted with the cursor before the end of text,
\* the tail text[cursor..] is yielded; with the cursor at the end, None; and
\* after the tail or a None every later next() returns None.
C8_TailOnce ==
    /\ (sp_ret.called /\ sp_ret.finder_none) =>
           IF sp_ret.cursor < Len(text)
           THEN sp_ret.ret = SomeS(sp_ret.cursor, Len(text))
           ELSE ~sp_ret.ret.some
    /\ sp_ret.phase_before \in {"tailed", "done"} => ~sp_ret.ret.some

C8_Witness ==
    /\ sp_ret.called /\ sp_ret.phase_before = "tailed"
    /\ Len(sp_log) >= 1 /\ Len(sp_out) >= 1
    /\ sp_out[Len(sp_out)].start > 0

\* C9: splitn(text, 0) yields nothing; splitn(text, 1) yields one piece, the
\* whole text, also when text is empty or has matches.
C9_SplitNZeroOne ==
    /\ sn_limit = 0 => sn_out = <<>>
    /\ (sn_limit = 1 /\ sn_ret.called) =>
           /\ Len(sn_out) = 1
           /\ sn_out[1] = SomeS(0, Len(text))
           /\ Str(sn_out[1]) = text

C9_Witness ==
    /\ sn_limit = 1 /\ sn_ret.called /\ ~sn_ret.ret.some
    /\ \E o \in occ : o[1] = 0 /\ o[2] > o[1]

\* C10: however often next() is called, splitn(text, limit) yields at most
\* limit pieces: the pieces yielded and the budget left never exceed limit.
C10_AtMostLimit ==
    /\ Len(sn_out) <= sn_limit
    /\ Len(sn_out) + sn.n <= sn_limit

C10_Witness ==
    /\ sn_limit >= 2 /\ Len(sn_out) = sn_limit
    /\ sn_ret.called /\ ~sn_ret.ret.some

\* The pieces of split(text) run to its first None with no fault.
RECURSIVE SplitRun(_, _)
SplitRunOn(r, out) == IF r.ret.some THEN SplitRun(r.self, Append(out, r.ret)) ELSE out

SplitRun(self, out) == SplitRunOn(SplitNext(self, 0, "none"), out)

SplitPieces == SplitRun(SplitNew, <<>>)

\* The pieces splitn(text, limit) yielded up to its first None.
SnCollected == IF sn_cut < 0 THEN sn_out ELSE SubSeq(sn_out, 1, sn_cut)

\* C11: for limit >= 1 the first limit - 1 pieces of splitn(text, limit) are
\* the first limit - 1 pieces of split(text), and the limit-th is the whole
\* tail text[last..] from the split cursor, returned without a scan.
C11_SplitNPrefixThenTail ==
    /\ ~sn_faulted =>
           \A i \in 1..Len(SnCollected) :
               i < sn_limit => /\ i <= Len(SplitPieces)
                               /\ SnCollected[i] = SplitPieces[i]
    /\ (sn_ret.called /\ sn_ret.n_before = 1) =>
           /\ sn_ret.ret = SomeS(sn_ret.last_before, Len(text))
           /\ ~sn_ret.scanned
    /\ (sn_limit >= 1 /\ Len(SnCollected) >= sn_limit) =>
           SnCollected[sn_limit] = SomeS(sn.splits.last, Len(text))

C11_Witness ==
    /\ sn_limit = 2 /\ Len(SnCollected) = 2 /\ ~sn_faulted
    /\ SnCollected[1] = SplitPieces[1]
    /\ SnCollected[2].start < Len(text)
    /\ \E o \in occ : o[1] >= SnCollected[2].start /\ o[2] > o[1]

(***************************************************************************)
(* Replace engine (regex.rs:260-280), checked under SpecReplace.           *)
(***************************************************************************)

\* The text with every match of the list replaced by one copy of r and the
\* spans between the matches kept.
RECURSIVE ReplaceEach(_, _, _, _)
ReplaceEach(ms, i, pos, r) ==
    IF i > Len(ms) THEN Slice(pos, Len(text))
    ELSE Slice(pos, ms[i].start) \o r \o ReplaceEach(ms, i + 1, ms[i].end, r)

\* C12: replace_all(t, rep) is t with every match that find_iter(t) yields
\* replaced by one copy of rep, the unmatched text kept unchanged and in order.
C12_ReplaceAllEveryMatch ==
    (rp.called /\ rp.limit = 0 /\ ~rp.faulted) =>
        rp.str = ReplaceEach(rp.seen, 1, 0, rp.rep)

\* The entries of the loop that moved last_match: every match but the one
\* the loop broke on.
Consumed == SelectSeq(rp.seen, LAMBDA e : e.action # "break")

Inserted == SelectSeq(rp.seen, LAMBDA e : e.action = "subst")

\* Occurrences of the replacement byte in the output (no text byte is 0).
RepBytes == Cardinality({i \in 1..Len(rp.str) : rp.str[i] = 0})

\* C13 as stated: for limit > 0 the replacement is inserted at most limit
\* times and no match is consumed once the cap is reached; limit == 0 puts
\* no bound on the substitutions.
C13_StopsConsumingAtCap ==
    rp.called =>
        /\ rp.limit > 0 =>
              /\ rp.matched <= rp.limit
              /\ \A i \in 1..Len(rp.seen) :
                     rp.seen[i].matched_before >= rp.limit => rp.seen[i].action = "break"
        /\ rp.limit = 0 => ~rp.broke

\* C13 (amended): for limit > 0 the replacement is inserted at most limit
\* times; once the cap is reached the loop still consumes every match that
\* starts exactly where the previous one ended and stops at the first match
\* that starts later; for limit == 0 the loop never stops early and every
\* match starting after the previous one's end gets a replacement.
C13_CapOnInsertions ==
    rp.called =>
        /\ rp.matched = Len(Inserted)
        /\ RepBytes = rp.matched * Len(rp.rep) \/ rp.cow = "Borrowed"
        /\ rp.limit > 0 =>
              /\ rp.matched <= rp.limit
              /\ RepBytes <= rp.limit
              /\ \A i \in 1..Len(rp.seen) :
                     rp.seen[i].matched_before >= rp.limit =>
                         \/ /\ rp.seen[i].action = "skip"
                            /\ rp.seen[i].start = rp.seen[i].last_before
                         \/ /\ rp.seen[i].action = "break"
                            /\ rp.seen[i].start > rp.seen[i].last_before
                            /\ i = Len(rp.seen)
        /\ rp.limit = 0 =>
              /\ ~rp.broke
              /\ \A i \in 1..Len(rp.seen) :
                     rp.seen[i].start > rp.seen[i].last_before => rp.seen[i].action = "subst"

C13_Witness ==
    /\ rp.called /\ rp.limit = 1 /\ rp.matched = 1 /\ rp.broke
    /\ rp.seen[Len(rp.seen)].action = "break"
    /\ rp.rep = <<0>> /\ RepBytes = 1

\* End of the last match of a list, 0 for the empty list.
LastEnd(ms) == IF ms = <<>> THEN 0 ELSE ms[Len(ms)].end

\* The output ends with text[e..].
EndsWithTail(e) ==
    /\ Len(rp.str) >= Len(text) - e
    /\ SubSeq(rp.str, Len(rp.str) - (Len(text) - e) + 1, Len(rp.str)) = Slice(e, Len(text))

\* C14 as stated: the output ends with text[e..], e the end of the last match
\* for which a replacement was inserted, so every match after that one is
\* still in the output.
C14_TailFromLastSubstituted ==
    (rp.called /\ rp.matched > 0) =>
        /\ rp.cow = "Owned"
        /\ rp.str = rp.new \o Slice(LastEnd(Inserted), Len(text))

\* C14 (amended): an owned output is the buffer built by the loop followed by
\* text[e..], e the end of the last match the loop consumed, whether a
\* replacement was inserted for it or it was skipped because it starts where
\* the previous match ended; every occurrence starting at or after e is
\* still in the output, and a borrowed output is the text itself.
C14_TailFromLastConsumed ==
    rp.called =>
        /\ rp.last_match = LastEnd(Consumed)
        /\ rp.cow = "Owned" =>
              /\ rp.str = rp.new \o Slice(rp.last_match, Len(text))
              /\ EndsWithTail(rp.last_match)
        /\ rp.cow = "Borrowed" => rp.str = text /\ rp.last_match = 0

C14_Witness ==
    /\ rp.called /\ rp.cow = "Owned" /\ rp.matched > 0
    /\ LastEnd(Consumed) > LastEnd(Inserted)
    /\ rp.last_match < Len(text)

C16_NoSubstitutionBorrowed ==
    (rp.called /\ rp.matched = 0) => (rp.cow = "Borrowed" /\ rp.str = text)

\* C17 as stated: for every text and every replacement the pattern never
\* matches, replace_all(replace_all(t, r), r) = replace_all(t, r).
C17_Idempotent ==
    (idem.pass = 3 /\ ~idem.first.faulted /\ ~idem.second.faulted) =>
        idem.second.str = idem.first.str

\* C17 (amended): for a replacement the pattern never matches, whenever the
\* pattern does not occur in replace_all(t, r) either, replacing again
\* returns that very text, as a borrow.
C17_IdempotentWhenNoNewMatch ==
    (idem.pass = 3 /\ Occurrences(idem.pattern, idem.rep) = {}
                   /\ Occurrences(idem.pattern, idem.first.str) = {}) =>
        /\ idem.second.str = idem.first.str
        /\ idem.second.cow = "Borrowed"

C17_Witness ==
    /\ idem.pass = 3
    /\ idem.first.cow = "Owned" /\ idem.first.matched > 0 /\ ~idem.first.faulted
    /\ idem.rep # <<>>
    /\ Occurrences(idem.pattern, idem.first.str) = {}
    /\ idem.second.cow = "Borrowed" /\ idem.second.str = idem.first.str

(***************************************************************************)
(* Engine outcomes of one scan (regex.rs:303-330, 401-449), checked under  *)
(* SpecMatches.                                                            *)
(***************************************************************************)

\* What a call returns when its scan counts as completed: decided by the
\* slot alone.
BySlot(call) == call.ret.some <=> (call.slot.end > call.slot.start)

\* C18: when the engine returns success or ScanTerminated, find_at and
\* Matches::next decide their result by the recorded slot alone; for any
\* other engine error they return None, even if the callback had recorded a
\* match before the error.
C18_ScanOutcome ==
    /\ fa.called =>
          /\ fa.rc \in {"Success", "ScanTerminated"} => BySlot(fa)
          /\ fa.rc = "Invalid" => fa.ret = NoneM
    /\ it_ret.called =>
          /\ it_ret.rc \in {"Success", "ScanTerminated"} => BySlot(it_ret)
          /\ it_ret.rc = "Invalid" => it_ret.ret = NoneM

C18_Witness ==
    /\ it_ret.called /\ it_ret.rc = "Invalid"
    /\ it_ret.slot.end > it_ret.slot.start
    /\ it_ret.ret = NoneM
    /\ fa.called /\ fa.rc = "ScanTerminated" /\ fa.ret.some

\* C19: a scratch allocation failure is surfaced to the caller of find_at
\* and of Matches::next: what the call returns differs from what it returns
\* for 'no match'.
C19_AllocFailureSurfaced ==
    /\ (fa.called /\ fa.rc = "AllocFailed") => fa.ret # NoneM
    /\ (it_ret.called /\ it_ret.rc = "AllocFailed") => it_ret.ret # NoneM

(***************************************************************************)
(* Scratch workspaces (regex.rs:304-314, 414-423), checked under           *)
(* SpecScratch.                                                            *)
(***************************************************************************)

\* C20: in every interleaving of find_at calls and next() calls of the
\* iterators, no scratch is used by more than one scan, and every scan uses
\* a scratch allocated against the very database it scans.
C20_ScratchPerScan ==
    /\ \A i, j \in 1..Len(sc.scans) : i # j => sc.scans[i].scratch # sc.scans[j].scratch
    /\ \A i \in 1..Len(sc.scans) :
          /\ sc.scans[i].scratch \in 1..sc.count
          /\ sc.scans[i].scratch_db = sc.scans[i].db

C20_Witness ==
    /\ Len(sc.scans) = 3
    /\ sc.its[1].db = sc.its[2].db
    /\ {sc.scans[i].by : i \in 1..3} = {0, 1, 2}
    /\ \E i \in 1..3 : sc.scans[i].db # sc.its[1].db

(***************************************************************************)
(* Database lifecycle (regex.rs:46-50, common.rs:75-80, 235-321), checked  *)
(* under SpecOwners and SpecDb.                                            *)
(***************************************************************************)

\* C21: with any number of Regex clones and iterators sharing one database,
\* the native database is released only when the last owner is dropped, and
\* no scan runs against a released database.
C21_ReleasedAfterLastOwner ==
    /\ own.handle.frees > 0 => own.clones = {}
    /\ own.handle.native = "released" => (own.clones = {} /\ own.iters = {})
    /\ own.handle.dropped <=> (own.cloned > 0 /\ own.clones = {})
    /\ ~own.scanned_released
    /\ own.last_scan.native \in {"none", "live"}

C21_Witness ==
    /\ own.handle.native = "released"
    /\ own.cloned = 2 /\ own.made = 2
    /\ own.last_scan.by = "next" /\ own.last_scan.native = "live"

\* C22: over the lifetime of a database handle, whatever explicit free()
\* calls precede the drop and whatever codes the engine returns, the
\* engine's free primitive is invoked on the native database exactly once.
C22_FreedExactlyOnce ==
    /\ db.frees <= 1
    /\ db.dropped => db.frees = 1

\* C23: no operation callable through a shared handle (database_size,
\* database_info, serialize, deserialize_at) changes the compiled contents
\* of the database.
C23_NeverMutated ==
    (db.ptr = "db" /\ db.last.op \in {"database_size", "database_info", "serialize", "deserialize_at"})
        => db.contents = db.built

(***************************************************************************)
(* Progress of the iterators, checked under SpecProgress.                  *)
(***************************************************************************)

\* The cursors after a step are where the step's own results put them.
ProgressStep ==
    /\ it_out' # it_out =>
          /\ ScanOffset(it'.m) > ScanOffset(it.m)
          /\ ScanOffset(it'.m) = it_out'[Len(it_out')].end
    /\ (it.m.some /\ it'.m.some) => ScanOffset(it'.m) >= ScanOffset(it.m)
    /\ sp'.last >= sp.last
    /\ (sp.finder.m.some /\ sp'.finder.m.some) =>
          ScanOffset(sp'.finder.m) >= ScanOffset(sp.finder.m)
    /\ sn'.n <= sn.n
    /\ sn'.splits.last >= sn.splits.last

\* What the runs have consumed so far is bounded by the text.
ProgressBound ==
    /\ Len(it_out) <= Len(text)
    /\ Len(sp_log) <= Len(text)
    /\ Len(sp_out) <= Len(text)
    /\ sp.last <= Len(text)
    /\ Len(sn_out) <= sn_limit
    /\ Len(rp.seen) <= Len(text)
    /\ rp.last_match <= Len(text)

\* C24: each yielded match moves the Matches scan offset to a strictly larger
\* value, the match end; Split.last never decreases and SplitN.n never
\* increases; find_iter yields at most len(text) matches, and split, splitn
\* and replacen consume at most len(text) matches before they finish.
C24_ForwardProgress == []ProgressBound /\ [][ProgressStep]_vars

C24_Witness ==
    /\ Len(text) = 3 /\ Len(it_out) = 2 /\ it_exhausted
    /\ it_out[1].end = it_out[2].start /\ it_out[2].end = Len(text)

(***************************************************************************)
(* The callback and what a scan leaves in the slot, checked under          *)
(* SpecMatches.                                                            *)
(***************************************************************************)

\* The slot after a scan from `offset` is the engine's first pair, and the
\* callback ran once, or there was no callback and the slot is untouched.
FirstPairOnly(call, offset) ==
    /\ call.calls <= 1
    /\ call.calls = 1 =>
          /\ EngineEvents(offset) # <<>>
          /\ call.slot.start = EngineEvents(offset)[1][1]
          /\ call.slot.end = EngineEvents(offset)[1][2]
    /\ call.calls = 0 => (call.slot.start = 0 /\ call.slot.end = 0)
    /\ (call.rc \in {"Success", "ScanTerminated"} /\ EngineEvents(offset) # <<>>) =>
          (call.calls = 1 /\ call.rc = "ScanTerminated")

\* C25: the callback always returns the stop signal, so within one scan it
\* runs at most once and the slot read after the call holds the first
\* (from, to) pair the engine reported, never a later one.
C25_FirstCallbackStops ==
    /\ fa.called => FirstPairOnly(fa, fa.start)
    /\ it_ret.called => FirstPairOnly(it_ret, it_ret.offset)

C25_Witness ==
    /\ fa.called /\ fa.calls = 1 /\ Len(EngineEvents(fa.start)) = 2
    /\ it_ret.called /\ it_ret.calls = 1 /\ Len(EngineEvents(it_ret.offset)) = 2

(***************************************************************************)
(* Iterators interleaved, checked under SpecInterleave.                    *)
(***************************************************************************)

\* What k calls of next() leave of an iterator that is run alone with no
\* fault: its state and the items it yielded.
Yielded(r, out) == IF r.ret.some THEN Append(out, r.ret) ELSE out

RECURSIVE MatchesAlone(_, _, _)
MatchesAloneOn(r, out, k) == MatchesAlone(r.self, Yielded(r, out), k)

MatchesAlone(self, out, k) ==
    IF k = 0 THEN [self |-> self, out |-> out]
    ELSE MatchesAloneOn(MatchesNext(self, "none"), out, k - 1)

RECURSIVE SplitAlone(_, _, _)
SplitAloneOn(r, out, k) == SplitAlone(r.self, Yielded(r, out), k)

SplitAlone(self, out, k) ==
    IF k = 0 THEN [self |-> self, out |-> out]
    ELSE SplitAloneOn(SplitNext(self, 0, "none"), out, k - 1)

RECURSIVE SplitNAlone(_, _, _)
SplitNAloneOn(r, out, k) == SplitNAlone(r.self, Yielded(r, out), k)

SplitNAlone(self, out, k) ==
    IF k = 0 THEN [self |-> self, out |-> out]
    ELSE SplitNAloneOn(SplitNNext(self, 0, "none"), out, k - 1)

\* After this many calls an iterator run alone no longer changes.
AloneCalls == Len(text) + sn_limit + 2

\* C26: iterators do not share cursor state: in any interleaving of next()
\* calls on a Matches, a Split and a SplitN iterator made from the same
\* Regex, each iterator is where a number of calls made on it alone would
\* have left it and has yielded exactly what those calls yield.
C26_NoSharedCursor ==
    /\ ~it_faulted =>
          \E k \in 0..AloneCalls :
              MatchesAlone(MatchesNew, <<>>, k) = [self |-> it, out |-> it_out]
    /\ ~sp_faulted =>
          \E k \in 0..AloneCalls :
              SplitAlone(SplitNew, <<>>, k) = [self |-> sp, out |-> sp_out]
    /\ ~sn_faulted =>
          \E k \in 0..AloneCalls :
              SplitNAlone(SplitNNew(sn_limit), <<>>, k) = [self |-> sn, out |-> sn_out]

C26_Witness ==
    /\ ~it_faulted /\ ~sp_faulted /\ ~sn_faulted
    /\ Len(it_out) = 1 /\ ~it_exhausted
    /\ Len(sp_out) = 1 /\ sp_phase = "tailed"
    /\ Len(sn_out) = 2 /\ sn.n = 0
    /\ it.m # sp.finder.m

(***************************************************************************)
(* A match at offset 0 in replacen (regex.rs:260-280), checked under       *)
(* SpecReplace.                                                            *)
(***************************************************************************)

\* The output begins with the bytes of `prefix`.
StartsWith(str, prefix) ==
    /\ Len(str) >= Len(prefix)
    /\ SubSeq(str, 1, Len(prefix)) = prefix

\* C27: replacen treats a match at offset 0 like a match at any other
\* offset: when the first match find_iter(t) yields starts at offset 0, the
\* output starts with the replacement text, and for replace (limit 1) it is
\* the replacement followed by the text after that match.
C27_MatchAtZeroReplaced ==
    (rp.called /\ ~rp.faulted /\ rp.seen # <<>> /\ rp.seen[1].start = 0) =>
        /\ rp.cow = "Owned"
        /\ StartsWith(rp.str, rp.rep)
        /\ rp.limit = 1 => rp.str = rp.rep \o Slice(rp.seen[1].end, Len(text))

(***************************************************************************)
(* splitn against split and after its first None (regex.rs:521-532),      *)
(* checked under SpecSplitN.                                               *)
(***************************************************************************)

\* C28: if split(t) yields k pieces and limit > k, the pieces of
\* splitn(t, limit) collected up to its first None are exactly the k pieces
\* of split(t).
C28_SplitNEqualsSplitBelowLimit ==
    (sn_cut >= 0 /\ ~sn_faulted /\ sn_limit > Len(SplitPieces)) =>
        SnCollected = SplitPieces

\* C29: SplitN is fused: once next() has returned None, every later next()
\* returns None, so nothing is yielded after the first None.
C29_SplitNFused ==
    sn_cut >= 0 => Len(sn_out) = sn_cut

(***************************************************************************)
(* Zero-width reports of the engine (regex.rs:360-373, 424-440), checked   *)
(* under SpecMatches.                                                      *)
(***************************************************************************)

\* The engine has a match with end > start to report in text[offset..].
NonEmptyAhead(offset) ==
    \E i \in 1..Len(EngineEvents(offset)) :
        EngineEvents(offset)[i][2] > EngineEvents(offset)[i][1]

\* C30: find and find_iter do not miss non-empty matches: a completed scan
\* from offset s returns None only if the engine would report no match with
\* end > start in text[s..].
C30_NoNonEmptyMatchMissed ==
    /\ (fa.called /\ Completed(fa.rc) /\ ~fa.ret.some) => ~NonEmptyAhead(fa.start)
    /\ (it_ret.called /\ Completed(it_ret.rc) /\ ~it_ret.ret.some) =>
          ~NonEmptyAhead(it_ret.offset)

(***************************************************************************)
(* check_hs_error! (common.rs:75-80), checked under SpecDb.                *)
(***************************************************************************)

\* C31: every database operation guarded by check_hs_error! invokes its
\* engine primitive exactly once per call, on the success path and on the
\* failure path, and the error it returns is the mapping of the code that
\* this single invocation returned.
C31_PrimitiveInvokedOnce ==
    db.last.op # "none" =>
        /\ db.last.calls = 1
        /\ db.last.ret # "Ok" => db.last.ret = ErrorFrom(db.last.first)

====
